---------------------------- MODULE Spec2Model ----------------------------
(***************************************************************************)
(* Model of rsa_app.py (RSA Encryption Visualizer).                        *)
(*                                                                         *)
(* The arithmetic core (is_prime, extended_gcd, mod_inverse, find_valid_e, *)
(* fast_pow_steps) is modelled as operators that follow the loops of the   *)
(* source.  The session held by RSAApp (n, phi, e, d, keys_ready,          *)
(* last_cipher, the status bar) is modelled as a state machine with one    *)
(* action per button handler (Spec).  A second specification (SpecFn)      *)
(* draws the arguments of one call of a core function in Init and applies  *)
(* the function.  SpecDefault is the session started from the entries the  *)
(* window opens with, SpecEgcd runs extended_gcd one loop iteration at a   *)
(* time, and SpecCipher is the session with the ciphertext entry and the   *)
(* "Use Last Ciphertext" button.                                           *)
(***************************************************************************)
EXTENDS Integers, Sequences, FiniteSets, TLC

VARIABLES
    n, phi, e, d,       \* RSAApp.n / .phi / .e / .d   (None or <<value>>)
    keys_ready,         \* RSAApp.keys_ready
    last_cipher,        \* RSAApp.last_cipher          (None or <<value>>)
    status,             \* RSAApp.status_var, the text of the status bar
    event,              \* the button press being delivered, with the
                        \* integers its handler reads from the entries
    fn, args, ret, pc,  \* one call of a core function: name, arguments,
                        \* returned value, and whether it has returned
    frame,              \* the local variables of a call that is run one
                        \* loop iteration at a time (None otherwise)
    entry_cipher,       \* RSAApp.entry_cipher, the ciphertext entry: None
                        \* for a text that is no integer ("?"), or <<value>>
    last_enc            \* history kept by SpecCipher: None, or <<m, n, e>>
                        \* of the most recent successful encryption (its
                        \* plaintext and the public key it was made under)

vars == <<n, phi, e, d, keys_ready, last_cipher, status, event,
          fn, args, ret, pc, frame, entry_cipher, last_enc>>

session == <<n, phi, e, d, keys_ready, last_cipher>>
callvars == <<fn, args, ret, pc, frame>>

(***************************************************************************)
(* Python values.  None is the empty tuple and an integer held in an       *)
(* attribute that may be None is a one-element tuple.                      *)
(***************************************************************************)
None == <<>>
Some(v) == <<v>>
Val(x) == x[1]

(***************************************************************************)
(* Bounds of the model.                                                    *)
(***************************************************************************)
MaxP == 4           \* p and q typed by the user range over MinInput..MaxP
MaxE == 3           \* e typed by the user ranges over MinInput..MaxE
MaxC == 0           \* c typed by the user ranges over MinInput..MaxC
MaxPrimeArg == 130  \* is_prime is called on MinPrimeArg..MaxPrimeArg
MaxGcdArg == 12     \* extended_gcd is called on (0..MaxGcdArg)^2
MaxInvArg == 14     \* mod_inverse is called on 0..MaxInvArg x 1..MaxInvArg
MaxPhiArg == 36     \* find_valid_e is called on MinInput..MaxPhiArg
MaxBase == 5        \* fast_pow_steps: base in MinBase..MaxBase
MaxExp == 9         \*                 exp  in 0..MaxExp
MaxOff == 2         \* messages typed around the default: DefaultMsg +- MaxOff
MaxMsg == 3         \* messages typed in the last-ciphertext session: 0..MaxMsg
MaxMod == 6         \*                 mod  in 1..MaxMod

MinInput == 0 - 1
MinPrimeArg == 0 - 3
MinBase == 0 - 2

RandomLo == 11      \* _random_primes: range(11, 200)
DefaultP == 61      \* __init__: self.p = tk.IntVar(value=61)
DefaultQ == 53      \* __init__: self.q = tk.IntVar(value=53)
DefaultE == 17      \* __init__: self.e_var = tk.IntVar(value=17)
DefaultMsg == 42    \* _build_tab_encrypt: entry_msg.insert(0, "42")

(***************************************************************************)
(* math.isqrt, math.gcd, abs                                               *)
(***************************************************************************)
Abs(x) == IF x < 0 THEN 0 - x ELSE x

isqrt(x) == CHOOSE k \in 0..x : k * k <= x /\ (k + 1) * (k + 1) > x

RECURSIVE gcd(_, _)
gcd(a, b) == IF b = 0 THEN Abs(a) ELSE gcd(b, a % Abs(b))

(***************************************************************************)
(* is_prime                                                                *)
(***************************************************************************)
\* is_prime with the divisor loop stopping one short: range(3, isqrt(n), 2)
is_prime_short_loop(x) ==
    IF x < 2 THEN FALSE
    ELSE IF x = 2 THEN TRUE
    ELSE IF x % 2 = 0 THEN FALSE
    ELSE ~ \E i \in 3..(isqrt(x) - 1) : i % 2 = 1 /\ x % i = 0

is_prime(x) ==
    IF x < 2 THEN FALSE
    ELSE IF x = 2 THEN TRUE
    ELSE IF x % 2 = 0 THEN FALSE
    ELSE ~ \E i \in 3..isqrt(x) : i % 2 = 1 /\ x % i = 0

(***************************************************************************)
(* extended_gcd: the loop state, one iteration, the loop, the function.    *)
(* A trace entry is <<tag, quotient, old_r, old_s, old_t, r, s, t>>, the   *)
(* numbers the formatted line shows.                                       *)
(***************************************************************************)
\* the initial state with an empty trace
extended_gcd_init_no_entry(a, b) ==
    [old_r |-> a, r |-> b, old_s |-> 1, s |-> 0, old_t |-> 0, t |-> 1,
     steps |-> << >>]

extended_gcd_init(a, b) ==
    [old_r |-> a, r |-> b, old_s |-> 1, s |-> 0, old_t |-> 0, t |-> 1,
     steps |-> << <<"Start", 0, a, 1, 0, b, 0, 1>> >>]

\* the iteration with the coefficient s updated without the quotient
extended_gcd_iter_no_quotient(st) ==
    LET quotient == st.old_r \div st.r
        r2 == st.old_r - quotient * st.r
        s2 == st.old_s - st.s
        t2 == st.old_t - quotient * st.t
    IN  [old_r |-> st.r, r |-> r2, old_s |-> st.s, s |-> s2,
         old_t |-> st.t, t |-> t2,
         steps |-> Append(st.steps,
                          <<"q", quotient, st.r, st.s, st.t, r2, s2, t2>>)]

extended_gcd_iter(st) ==
    LET quotient == st.old_r \div st.r
        r2 == st.old_r - quotient * st.r
        s2 == st.old_s - quotient * st.s
        t2 == st.old_t - quotient * st.t
    IN  [old_r |-> st.r, r |-> r2, old_s |-> st.s, s |-> s2,
         old_t |-> st.t, t |-> t2,
         steps |-> Append(st.steps,
                          <<"q", quotient, st.r, st.s, st.t, r2, s2, t2>>)]

RECURSIVE extended_gcd_loop(_)
extended_gcd_loop(st) ==
    IF st.r # 0 THEN extended_gcd_loop(extended_gcd_iter(st)) ELSE st

extended_gcd(a, b) ==
    LET st == extended_gcd_loop(extended_gcd_init(a, b))
    IN  <<st.old_r, st.old_s, st.old_t, st.steps>>

(***************************************************************************)
(* mod_inverse: returns <<d, steps>>, d is None when gcd # 1               *)
(***************************************************************************)
\* mod_inverse returning x as the solver gave it, without "% phi"
mod_inverse_raw(ee, ph) ==
    LET g == extended_gcd(ee, ph)
    IN  IF g[1] # 1 THEN <<None, g[4]>>
        ELSE <<Some(g[2]), g[4]>>

mod_inverse(ee, ph) ==
    LET g == extended_gcd(ee, ph)
    IN  IF g[1] # 1 THEN <<None, g[4]>>
        ELSE <<Some(g[2] % ph), g[4]>>

(***************************************************************************)
(* find_valid_e                                                            *)
(***************************************************************************)
\* the preference list in ascending order
candidates_ascending == <<3, 5, 17, 65537>>

candidates == <<65537, 17, 5, 3>>

\* find_valid_e with 3 as the last-resort default
find_valid_e_default_3(ph) ==
    LET ok(c) == c < ph /\ gcd(c, ph) = 1
        hits == {i \in 1..Len(candidates) : ok(candidates[i])}
        odd  == {k \in 3..(ph - 1) : k % 2 = 1 /\ gcd(k, ph) = 1}
    IN  IF hits # {}
        THEN candidates[CHOOSE i \in hits : \A j \in hits : i <= j]
        ELSE IF odd # {}
        THEN CHOOSE k \in odd : \A j \in odd : k <= j
        ELSE 3

find_valid_e(ph) ==
    LET ok(c) == c < ph /\ gcd(c, ph) = 1
        hits == {i \in 1..Len(candidates) : ok(candidates[i])}
        odd  == {k \in 3..(ph - 1) : k % 2 = 1 /\ gcd(k, ph) = 1}
    IN  IF hits # {}
        THEN candidates[CHOOSE i \in hits : \A j \in hits : i <= j]
        ELSE IF odd # {}
        THEN CHOOSE k \in odd : \A j \in odd : k <= j
        ELSE 2

(***************************************************************************)
(* fast_pow_steps.  bin(exp) is the digit sequence Python prints after     *)
(* "0b", most significant digit first; bin(0) is "0b0".                    *)
(***************************************************************************)
RECURSIVE bin(_)
bin(x) == IF x < 2 THEN <<x>> ELSE Append(bin(x \div 2), x % 2)

\* the initial state with the accumulator starting at 0
fast_pow_init_zero(base, exp, mod) ==
    [result |-> 0, b |-> base % mod, e |-> exp, step_num |-> 1,
     steps |-> << <<"Compute", base, exp, mod>>, <<"Binary", bin(exp)>> >>]

fast_pow_init(base, exp, mod) ==
    [result |-> 1, b |-> base % mod, e |-> exp, step_num |-> 1,
     steps |-> << <<"Compute", base, exp, mod>>, <<"Binary", bin(exp)>> >>]

\* the iteration with the multiplication applied on the 0 bits
fast_pow_iter_wrong_bit(st, mod) ==
    LET res2 == IF st.e % 2 = 0 THEN (st.result * st.b) % mod ELSE st.result
        line == IF st.e % 2 = 1
                THEN <<"bit=1", st.step_num, st.b, mod, res2>>
                ELSE <<"bit=0", st.step_num, res2>>
    IN  [result |-> res2, b |-> (st.b * st.b) % mod, e |-> st.e \div 2,
         step_num |-> st.step_num + 1, steps |-> Append(st.steps, line)]

fast_pow_iter(st, mod) ==
    LET res2 == IF st.e % 2 = 1 THEN (st.result * st.b) % mod ELSE st.result
        line == IF st.e % 2 = 1
                THEN <<"bit=1", st.step_num, st.b, mod, res2>>
                ELSE <<"bit=0", st.step_num, res2>>
    IN  [result |-> res2, b |-> (st.b * st.b) % mod, e |-> st.e \div 2,
         step_num |-> st.step_num + 1, steps |-> Append(st.steps, line)]

RECURSIVE fast_pow_loop(_, _)
fast_pow_loop(st, mod) ==
    IF st.e > 0 THEN fast_pow_loop(fast_pow_iter(st, mod), mod) ELSE st

fast_pow_steps(base, exp, mod) ==
    LET st == fast_pow_loop(fast_pow_init(base, exp, mod), mod)
    IN  <<st.result, Append(st.steps, <<"Final", st.result>>)>>

(***************************************************************************)
(* The status bar.  A status is the kind of message _set_status was given  *)
(* and the numbers the message shows.                                      *)
(***************************************************************************)
Status(kind, a, b, c) == [kind |-> kind, a |-> a, b |-> b, c |-> c]

Event(op, a, b, c) == [op |-> op, a |-> a, b |-> b, c |-> c]
NoEvent == Event("none", 0, 0, 0)

(***************************************************************************)
(* RSAApp.__init__ (with _tab_decrypt and _build_status_bar)               *)
(***************************************************************************)
InitApp ==
    /\ n = None /\ phi = None /\ e = None /\ d = None
    /\ keys_ready = FALSE
    /\ last_cipher = None
    /\ status = Status("welcome", 0, 0, 0)
    /\ event = NoEvent
    /\ entry_cipher = None
    /\ last_enc = None

(***************************************************************************)
(* RSAApp._generate_keys with the integers p, q, ec read from the entries  *)
(***************************************************************************)
\* the validity test without the upper bound e < phi
valid_e_no_upper(ec, ph) == 1 < ec /\ gcd(ec, ph) = 1

valid_e(ec, ph) == (1 < ec /\ ec < ph) /\ gcd(ec, ph) = 1

\* exponent validation that always substitutes the suggested exponent
chosen_e_always_suggest(ec, ph) == find_valid_e(ph)

chosen_e(ec, ph) == IF ~ valid_e(ec, ph) THEN find_valid_e(ph) ELSE ec

\* the handler without the "p == q" check
generate_keys_no_distinct(p, q, ec) ==
    IF ~ is_prime(p)
    THEN /\ status' = Status("p_not_prime", p, 0, 0)
         /\ UNCHANGED session
    ELSE IF ~ is_prime(q)
    THEN /\ status' = Status("q_not_prime", q, 0, 0)
         /\ UNCHANGED session
    ELSE LET n1   == p * q
             phi1 == (p - 1) * (q - 1)
             e1   == chosen_e(ec, phi1)
             d1   == mod_inverse(e1, phi1)[1]
         IN  IF d1 = None
             THEN UNCHANGED <<session, status>>
             ELSE /\ n' = Some(n1) /\ phi' = Some(phi1)
                  /\ e' = Some(e1) /\ d' = d1
                  /\ keys_ready' = TRUE
                  /\ status' = Status("keys_ready", n1, e1, Val(d1))
                  /\ UNCHANGED last_cipher

generate_keys(p, q, ec) ==
    IF ~ is_prime(p)
    THEN /\ status' = Status("p_not_prime", p, 0, 0)
         /\ UNCHANGED session
    ELSE IF ~ is_prime(q)
    THEN /\ status' = Status("q_not_prime", q, 0, 0)
         /\ UNCHANGED session
    ELSE IF p = q
    THEN UNCHANGED <<session, status>>
    ELSE LET n1   == p * q
             phi1 == (p - 1) * (q - 1)
             e1   == chosen_e(ec, phi1)
             d1   == mod_inverse(e1, phi1)[1]
         IN  IF d1 = None
             THEN UNCHANGED <<session, status>>
             ELSE /\ n' = Some(n1) /\ phi' = Some(phi1)
                  /\ e' = Some(e1) /\ d' = d1
                  /\ keys_ready' = TRUE
                  /\ status' = Status("keys_ready", n1, e1, Val(d1))
                  /\ UNCHANGED last_cipher

(***************************************************************************)
(* RSAApp._encrypt with the integer m read from the message entry          *)
(***************************************************************************)
\* the handler with the range check 0 < m <= n
encrypt_upper_inclusive(m) ==
    IF ~ keys_ready
    THEN UNCHANGED <<session, status>>
    ELSE IF ~ (0 < m /\ m <= Val(n))
    THEN /\ status' = Status("out_of_range", Val(n), 0, 0)
         /\ UNCHANGED session
    ELSE LET c == fast_pow_steps(m, Val(e), Val(n))[1]
         IN  /\ last_cipher' = Some(c)
             /\ status' = Status("encrypted", m, c, 0)
             /\ UNCHANGED <<n, phi, e, d, keys_ready>>

\* the handler storing the plaintext as the last ciphertext
encrypt_stores_plain(m) ==
    IF ~ keys_ready
    THEN UNCHANGED <<session, status>>
    ELSE IF ~ (0 < m /\ m < Val(n))
    THEN /\ status' = Status("out_of_range", Val(n), 0, 0)
         /\ UNCHANGED session
    ELSE LET c == fast_pow_steps(m, Val(e), Val(n))[1]
         IN  /\ last_cipher' = Some(m)
             /\ status' = Status("encrypted", m, c, 0)
             /\ UNCHANGED <<n, phi, e, d, keys_ready>>

encrypt(m) ==
    IF ~ keys_ready
    THEN UNCHANGED <<session, status>>
    ELSE IF ~ (0 < m /\ m < Val(n))
    THEN /\ status' = Status("out_of_range", Val(n), 0, 0)
         /\ UNCHANGED session
    ELSE LET c == fast_pow_steps(m, Val(e), Val(n))[1]
         IN  /\ last_cipher' = Some(c)
             /\ status' = Status("encrypted", m, c, 0)
             /\ UNCHANGED <<n, phi, e, d, keys_ready>>

(***************************************************************************)
(* RSAApp._decrypt with the integer c read from the ciphertext entry       *)
(***************************************************************************)
\* the handler raising to the public exponent e instead of d
decrypt_with_e(c) ==
    IF ~ keys_ready
    THEN UNCHANGED <<session, status>>
    ELSE LET m_recovered == fast_pow_steps(c, Val(e), Val(n))[1]
         IN  /\ status' = Status("decrypted", c, m_recovered, 0)
             /\ UNCHANGED session

decrypt(c) ==
    IF ~ keys_ready
    THEN UNCHANGED <<session, status>>
    ELSE LET m_recovered == fast_pow_steps(c, Val(d), Val(n))[1]
         IN  /\ status' = Status("decrypted", c, m_recovered, 0)
             /\ UNCHANGED session

(***************************************************************************)
(* Button presses.  A press is delivered to its handler with the integers  *)
(* the handler reads from the entries (int(self.entry_p.get()), ...).      *)
(* p and q are typed integers or the smallest prime that "Random Primes"   *)
(* fills in (range(11, 200)); the message is any integer up to the largest *)
(* p * q; the ciphertext entry holds a typed integer or, after "Use Last   *)
(* Ciphertext", str(last_cipher).                                          *)
(***************************************************************************)
PInputs == (MinInput..MaxP) \cup {RandomLo}
EInputs == MinInput..MaxE
Moduli == {pq[1] * pq[2] : pq \in {x \in PInputs \X PInputs : x[1] > 1 /\ x[2] > 1 /\ x[1] # x[2]}}
MaxModulus == CHOOSE m \in Moduli : \A k \in Moduli : k <= m
MsgInputs == MinInput..MaxModulus
CInputs == (MinInput..MaxC) \cup (IF last_cipher = None THEN {} ELSE {Val(last_cipher)})

ClickGenerateKeys ==
    /\ event = NoEvent
    /\ \E p \in PInputs, q \in PInputs, ec \in EInputs :
          event' = Event("generate_keys", p, q, ec)
    /\ UNCHANGED <<session, status, callvars, entry_cipher, last_enc>>

ClickEncrypt ==
    /\ event = NoEvent
    /\ \E m \in MsgInputs : event' = Event("encrypt", m, 0, 0)
    /\ UNCHANGED <<session, status, callvars, entry_cipher, last_enc>>

ClickDecrypt ==
    /\ event = NoEvent
    /\ \E c \in CInputs : event' = Event("decrypt", c, 0, 0)
    /\ UNCHANGED <<session, status, callvars, entry_cipher, last_enc>>

GenerateKeys ==
    /\ event.op = "generate_keys"
    /\ generate_keys(event.a, event.b, event.c)
    /\ event' = NoEvent
    /\ UNCHANGED <<callvars, entry_cipher, last_enc>>

Encrypt ==
    /\ event.op = "encrypt"
    /\ encrypt(event.a)
    /\ event' = NoEvent
    /\ UNCHANGED <<callvars, entry_cipher, last_enc>>

Decrypt ==
    /\ event.op = "decrypt"
    /\ decrypt(event.a)
    /\ event' = NoEvent
    /\ UNCHANGED <<callvars, entry_cipher, last_enc>>

NoCall ==
    /\ fn = "none" /\ args = <<0, 0, 0>> /\ ret = None /\ pc = "idle"
    /\ frame = None

Init == InitApp /\ NoCall

Next ==
    \/ ClickGenerateKeys \/ ClickEncrypt \/ ClickDecrypt
    \/ GenerateKeys \/ Encrypt \/ Decrypt

Spec == Init /\ [][Next]_vars

(***************************************************************************)
(* One call of a core function.  Init draws the function and its arguments *)
(* (unused argument positions are 0); the Call actions apply the function  *)
(* and keep what it returns, as a tuple.                                   *)
(***************************************************************************)
PhiExamples == {3120, 65538, 131074}

Calls ==
    ({"is_prime"} \X ((MinPrimeArg..MaxPrimeArg) \X {0} \X {0}))
    \cup ({"extended_gcd"} \X ((0..MaxGcdArg) \X (0..MaxGcdArg) \X {0}))
    \cup ({"mod_inverse"} \X ((0..MaxInvArg) \X (1..MaxInvArg) \X {0}))
    \cup ({"find_valid_e"} \X (((MinInput..MaxPhiArg) \cup PhiExamples) \X {0} \X {0}))
    \cup ({"fast_pow_steps"} \X ((MinBase..MaxBase) \X (0..MaxExp) \X (1..MaxMod)))

InitFn ==
    /\ InitApp
    /\ \E call \in Calls : fn = call[1] /\ args = call[2]
    /\ ret = None
    /\ pc = "call"
    /\ frame = None

Call_is_prime ==
    /\ pc = "call" /\ fn = "is_prime"
    /\ ret' = <<is_prime(args[1])>>
    /\ pc' = "return"
    /\ UNCHANGED <<session, status, event, entry_cipher, last_enc, fn, args, frame>>

Call_extended_gcd ==
    /\ pc = "call" /\ fn = "extended_gcd"
    /\ ret' = extended_gcd(args[1], args[2])
    /\ pc' = "return"
    /\ UNCHANGED <<session, status, event, entry_cipher, last_enc, fn, args, frame>>

Call_mod_inverse ==
    /\ pc = "call" /\ fn = "mod_inverse"
    /\ ret' = mod_inverse(args[1], args[2])
    /\ pc' = "return"
    /\ UNCHANGED <<session, status, event, entry_cipher, last_enc, fn, args, frame>>

Call_find_valid_e ==
    /\ pc = "call" /\ fn = "find_valid_e"
    /\ ret' = <<find_valid_e(args[1])>>
    /\ pc' = "return"
    /\ UNCHANGED <<session, status, event, entry_cipher, last_enc, fn, args, frame>>

Call_fast_pow_steps ==
    /\ pc = "call" /\ fn = "fast_pow_steps"
    /\ ret' = fast_pow_steps(args[1], args[2], args[3])
    /\ pc' = "return"
    /\ UNCHANGED <<session, status, event, entry_cipher, last_enc, fn, args, frame>>

NextFn ==
    \/ Call_is_prime \/ Call_extended_gcd \/ Call_mod_inverse
    \/ Call_find_valid_e \/ Call_fast_pow_steps

SpecFn == InitFn /\ [][NextFn]_vars

Returned(f) == pc = "return" /\ fn = f

(***************************************************************************)
(* Reference definitions used to state the properties: primality by trial  *)
(* division, the greatest common divisor as the largest common divisor,    *)
(* the power by repeated multiplication.                                   *)
(***************************************************************************)
TrialPrime(x) == x >= 2 /\ \A k \in 2..(x - 1) : x % k # 0

Max2(a, b) == IF a >= b THEN a ELSE b

GcdDef(a, b) ==
    IF a = 0 /\ b = 0 THEN 0
    ELSE CHOOSE g \in 1..Max2(a, b) :
            /\ a % g = 0 /\ b % g = 0
            /\ \A k \in (g + 1)..Max2(a, b) : ~ (a % k = 0 /\ b % k = 0)

RECURSIVE PowMod(_, _, _)
PowMod(b, x, m) == IF x = 0 THEN 1 % m ELSE (b * PowMod(b, x - 1, m)) % m

(***************************************************************************)
(* Properties of the core functions (checked under SpecFn)                 *)
(***************************************************************************)

\* C5 (as stated): for e >= 0 and phi >= 1, mod_inverse(e, phi) returns d with
\* 0 <= d < phi and (e*d) mod phi = 1 when gcd(e, phi) = 1, returns None when
\* gcd(e, phi) # 1, and returns the extended-Euclid trace in both cases.
C5_AsStated ==
    Returned("mod_inverse") =>
        LET ee == args[1]
            ph == args[2]
        IN  /\ ret[2] = extended_gcd(ee, ph)[4] /\ Len(ret[2]) >= 1
            /\ IF GcdDef(ee, ph) = 1
               THEN /\ ret[1] # None
                    /\ 0 <= Val(ret[1]) /\ Val(ret[1]) < ph
                    /\ (ee * Val(ret[1])) % ph = 1
               ELSE ret[1] = None

\* C5 (amended): as above, with the product reduced to the residue of 1:
\* (e*d) mod phi = 1 mod phi, which is 1 for phi >= 2 and 0 for phi = 1.
C5_ModInverse ==
    Returned("mod_inverse") =>
        LET ee == args[1]
            ph == args[2]
        IN  /\ ret[2] = extended_gcd(ee, ph)[4] /\ Len(ret[2]) >= 1
            /\ IF GcdDef(ee, ph) = 1
               THEN /\ ret[1] # None
                    /\ 0 <= Val(ret[1]) /\ Val(ret[1]) < ph
                    /\ (ee * Val(ret[1])) % ph = 1 % ph
               ELSE ret[1] = None

\* C5 witness: an inverse was returned for phi >= 2 after the solver gave a
\* negative coefficient x, which mod_inverse normalised into [0, phi).
C5_Witness ==
    /\ Returned("mod_inverse")
    /\ args[2] >= 2
    /\ extended_gcd(args[1], args[2])[2] < 0
    /\ ret[1] # None
    /\ Val(ret[1]) # args[1]

\* C6: for a >= 0 and b >= 0, extended_gcd(a, b) returns (g, x, y) with
\* a*x + b*y = g and g = gcd(a, b); when b = 0 the loop body never runs
\* (the trace holds only the start entry) and g = a, x = 1, y = 0.
C6_ExtendedGcd ==
    Returned("extended_gcd") =>
        LET a == args[1]
            b == args[2]
        IN  /\ a * ret[2] + b * ret[3] = ret[1]
            /\ ret[1] = GcdDef(a, b)
            /\ (b = 0 => /\ ret[1] = a /\ ret[2] = 1 /\ ret[3] = 0
                         /\ Len(ret[4]) = 1)

\* C6 witness: a call with a = 0 and b > 0 returned, after at least one
\* iteration of the loop.
C6_Witness ==
    /\ Returned("extended_gcd")
    /\ args[1] = 0 /\ args[2] > 0
    /\ ret[1] = args[2]
    /\ Len(ret[4]) > 1

\* C7: fast_pow_steps returns 1 for exponent 0 with any base and modulus > 1,
\* and returns 0 for modulus 1 with any base and any exponent >= 0.
C7_EdgeCases ==
    Returned("fast_pow_steps") =>
        /\ (args[2] = 0 /\ args[3] > 1 => ret[1] = 1)
        /\ (args[3] = 1 => ret[1] = 0)

\* C8 (as stated): for base >= 0, exponent >= 0, modulus >= 2, fast_pow_steps
\* returns base^exponent mod modulus and appends exactly one bit-step trace
\* entry per binary digit of the exponent.
BitSteps(steps) == {i \in 1..Len(steps) : steps[i][1] \in {"bit=1", "bit=0"}}

C8_AsStated ==
    Returned("fast_pow_steps") /\ args[1] >= 0 /\ args[3] >= 2 =>
        /\ ret[1] = PowMod(args[1], args[2], args[3])
        /\ Cardinality(BitSteps(ret[2])) = Len(bin(args[2]))

\* C8 (amended): the result is base^exponent mod modulus; the trace has one
\* bit-step entry per binary digit of the exponent when exponent >= 1 and no
\* bit-step entry when exponent = 0.
C8_SquareAndMultiply ==
    Returned("fast_pow_steps") /\ args[1] >= 0 /\ args[3] >= 2 =>
        /\ ret[1] = PowMod(args[1], args[2], args[3])
        /\ Cardinality(BitSteps(ret[2])) =
              IF args[2] = 0 THEN 0 ELSE Len(bin(args[2]))

\* C8 witness: an exponent with several binary digits, some of them 0 and
\* some 1, was raised and the result is neither 0 nor 1.
C8_Witness ==
    /\ Returned("fast_pow_steps")
    /\ args[1] >= 2 /\ args[3] >= 2
    /\ Len(bin(args[2])) >= 3
    /\ \E i \in BitSteps(ret[2]) : ret[2][i][1] = "bit=0"
    /\ \E i \in BitSteps(ret[2]) : ret[2][i][1] = "bit=1" /\ i > 3
    /\ ret[1] > 1

\* C9: is_prime(x) agrees with trial division (x >= 2 and no divisor k with
\* 1 < k < x) for every x in the range, negatives, 0 and 1 included;
\* is_prime(2) holds, is_prime(1) and is_prime(4) do not, no x < 2 is prime.
C9_IsPrime ==
    Returned("is_prime") =>
        /\ ret[1] = TrialPrime(args[1])
        /\ (args[1] = 2 => ret[1] = TRUE)
        /\ (args[1] \in {1, 4} => ret[1] = FALSE)
        /\ (args[1] < 2 => ret[1] = FALSE)

\* C9 witness: is_prime returned true for an odd prime whose square root is
\* at least 3, so that the divisor loop ran.
C9_Witness ==
    /\ Returned("is_prime")
    /\ args[1] >= 11 /\ args[1] % 2 = 1
    /\ ret[1] = TRUE

\* C10: find_valid_e(phi) returns the first element of (65537, 17, 5, 3), in
\* that order, that is below phi and coprime with phi; if no element of the
\* list qualifies and some odd k with 3 <= k < phi is coprime with phi, it
\* returns the smallest such k; find_valid_e(3120) = 17.
C10_FindValidE ==
    Returned("find_valid_e") =>
        LET ph == args[1]
            list == <<65537, 17, 5, 3>>
            qual(c) == c < ph /\ GcdDef(c, ph) = 1
            firsts == {i \in 1..4 : qual(list[i]) /\ \A j \in 1..(i - 1) : ~ qual(list[j])}
            odds == {k \in 3..(ph - 1) : k % 2 = 1 /\ GcdDef(k, ph) = 1}
        IN  /\ \A i \in firsts : ret[1] = list[i]
            /\ (firsts = {} => \A k \in odds : (\A j \in odds : k <= j) => ret[1] = k)
            /\ (ph = 3120 => ret[1] = 17)

\* C10 witness: no element of the list qualified and the odd scan found the
\* exponent that was returned.
C10_Witness ==
    /\ Returned("find_valid_e")
    /\ \A c \in {65537, 17, 5, 3} : ~ (c < args[1] /\ GcdDef(c, args[1]) = 1)
    /\ ret[1] >= 7 /\ ret[1] < args[1] /\ GcdDef(ret[1], args[1]) = 1

(***************************************************************************)
(* Properties of the session (checked under Spec)                          *)
(***************************************************************************)
key == <<n, phi, e, d, keys_ready>>

\* C1: round trip.  With a key stored, when an encryption of m (0 < m < n)
\* has put "m -> c" in the status bar and the next handler to run decrypts
\* that c, the decryption returns exactly m, also when m shares a factor
\* with n.
C1_RoundTrip ==
    [][(/\ event.op = "decrypt"
        /\ keys_ready
        /\ status.kind = "encrypted"
        /\ event.a = status.b)
       => (/\ status'.kind = "decrypted"
           /\ status'.a = status.b
           /\ status'.b = status.a)]_vars

\* C1 witness: the decryption of the last ciphertext has returned a
\* plaintext m that shares a factor with n, under a key with d # e.
C1_Witness ==
    /\ event = NoEvent /\ keys_ready
    /\ status.kind = "decrypted"
    /\ last_cipher = Some(status.a)
    /\ fast_pow_steps(status.b, Val(e), Val(n))[1] = status.a
    /\ 0 < status.b /\ status.b < Val(n)
    /\ GcdDef(status.b, Val(n)) > 1
    /\ d # e

\* C2: key invariant.  Whenever keys_ready is true, the stored n, phi, e, d
\* satisfy n = p*q and phi = (p-1)*(q-1) for distinct primes p, q,
\* 1 < e < phi, gcd(e, phi) = 1, 0 <= d < phi and (e*d) mod phi = 1.
C2_KeyInvariant ==
    keys_ready =>
        /\ n # None /\ phi # None /\ e # None /\ d # None
        /\ \E p \in 2..Val(n) :
              /\ Val(n) % p = 0
              /\ LET q == Val(n) \div p
                 IN  /\ TrialPrime(p) /\ TrialPrime(q) /\ p # q
                     /\ Val(phi) = (p - 1) * (q - 1)
        /\ 1 < Val(e) /\ Val(e) < Val(phi)
        /\ GcdDef(Val(e), Val(phi)) = 1
        /\ 0 <= Val(d) /\ Val(d) < Val(phi)
        /\ (Val(e) * Val(d)) % Val(phi) = 1

\* C2 witness: a key is stored whose exponent e was substituted by
\* find_valid_e (no typed e is that large) and whose d differs from e.
C2_Witness ==
    /\ event = NoEvent /\ keys_ready
    /\ status.kind = "keys_ready"
    /\ Val(e) > MaxE
    /\ d # e

\* C3: key generation rejects bad primes.  When p is not prime, or q is not
\* prime, or p = q, the handler stores no key and leaves n, phi, e, d,
\* keys_ready and last_cipher as they were; a p or q that is not prime (such
\* as p = 4) is reported as not prime, and equal primes leave the status bar
\* as it was.
C3_RejectsBadPrimes ==
    [][(/\ event.op = "generate_keys"
        /\ (~ TrialPrime(event.a) \/ ~ TrialPrime(event.b) \/ event.a = event.b))
       => (/\ UNCHANGED session
           /\ status' = IF ~ TrialPrime(event.a)
                        THEN Status("p_not_prime", event.a, 0, 0)
                        ELSE IF ~ TrialPrime(event.b)
                        THEN Status("q_not_prime", event.b, 0, 0)
                        ELSE status)]_vars

\* C3 witness: key generation has just rejected p = 4 as not prime while a
\* key and a last ciphertext from earlier calls are still stored.
C3_Witness ==
    /\ event = NoEvent
    /\ status = Status("p_not_prime", 4, 0, 0)
    /\ keys_ready
    /\ last_cipher # None

\* C4: encrypt range check.  With a key stored, encrypt computes the
\* ciphertext m^e mod n and stores it in last_cipher if 0 < m < n; for
\* m <= 0 or m >= n it reports out-of-range, computes no ciphertext and
\* leaves last_cipher and the key unchanged.
C4_EncryptRange ==
    [][(event.op = "encrypt" /\ keys_ready)
       => IF 0 < event.a /\ event.a < Val(n)
          THEN LET c == PowMod(event.a, Val(e), Val(n))
               IN  /\ status' = Status("encrypted", event.a, c, 0)
                   /\ last_cipher' = Some(c)
                   /\ UNCHANGED key
          ELSE /\ status' = Status("out_of_range", Val(n), 0, 0)
               /\ UNCHANGED session]_vars

\* C4 witness: an out-of-range message has just been refused while the
\* ciphertext of an earlier encryption under the stored key is still held.
C4_Witness ==
    /\ event = NoEvent /\ keys_ready
    /\ status.kind = "out_of_range"
    /\ last_cipher # None
    /\ Val(last_cipher) < Val(n)

(***************************************************************************)
(* The last-resort default of find_valid_e (checked under SpecFn)          *)
(***************************************************************************)
\* the preference list and the odd scan both find nothing for phi
NothingFound(ph) ==
    /\ \A c \in {65537, 17, 5, 3} : ~ (c < ph /\ GcdDef(c, ph) = 1)
    /\ \A k \in 3..(ph - 1) : ~ (k % 2 = 1 /\ GcdDef(k, ph) = 1)

\* e is a valid public exponent for phi
ValidExponent(x, ph) == 1 < x /\ x < ph /\ GcdDef(x, ph) = 1

\* C11 (as stated): the preference list and the odd scan of find_valid_e both
\* find nothing, so that the default 2 is returned, exactly when phi <= 2;
\* whenever the default is returned it is not a valid exponent for phi.
C11_AsStated ==
    Returned("find_valid_e") =>
        /\ NothingFound(args[1]) <=> args[1] <= 2
        /\ NothingFound(args[1]) <=> ret[1] = 2
        /\ (ret[1] = 2 => ~ ValidExponent(2, args[1]))

\* C11 (amended): the list and the scan both find nothing, so that the
\* default 2 is returned, exactly when phi <= 3; the default is not a valid
\* exponent when phi <= 2, and for phi = 3 it is one (1 < 2 < 3, gcd = 1).
C11_DefaultExponent ==
    Returned("find_valid_e") =>
        /\ NothingFound(args[1]) <=> args[1] <= 3
        /\ NothingFound(args[1]) <=> ret[1] = 2
        /\ (ret[1] = 2 => (ValidExponent(2, args[1]) <=> args[1] = 3))

\* C11 witness: find_valid_e was called with phi = 2, the totient of
\* p = 2, q = 3, and returned the default 2, which is not below phi.
C11_Witness ==
    /\ Returned("find_valid_e")
    /\ args[1] = 2
    /\ ret[1] = 2
    /\ NothingFound(args[1])

(***************************************************************************)
(* Exponent validation in key generation (checked under Spec)              *)
(***************************************************************************)
\* the exponent the claim says is handed to mod_inverse
HandedExponent(ec, ph) ==
    IF ValidExponent(ec, ph) THEN ec ELSE find_valid_e(ph)

\* C13 (as stated): for all distinct primes p, q and every integer
\* e_candidate, the exponent handed to mod_inverse is e_candidate itself when
\* 1 < e_candidate < phi and gcd(e_candidate, phi) = 1, and find_valid_e(phi)
\* otherwise; in both cases gcd(e, phi) = 1, so the no-inverse branch is
\* never reached and the key is stored with that e.
C13_AsStated ==
    [][(/\ event.op = "generate_keys"
        /\ TrialPrime(event.a) /\ TrialPrime(event.b) /\ event.a # event.b)
       => LET ph == (event.a - 1) * (event.b - 1)
              e1 == HandedExponent(event.c, ph)
          IN  /\ GcdDef(e1, ph) = 1
              /\ e' = Some(e1)
              /\ keys_ready'
              /\ status'.kind = "keys_ready"]_vars

\* C13 (amended): for all distinct primes p, q and every integer e_candidate,
\* the exponent handed to mod_inverse is e_candidate itself when it is valid
\* and find_valid_e(phi) otherwise.  When phi > 2 that e has gcd(e, phi) = 1
\* and the key is stored with it; when phi = 2 (p, q = 2, 3) no e_candidate
\* is valid, find_valid_e(2) = 2 is handed over with gcd(2, 2) = 2, and the
\* no-inverse branch is reached: nothing is stored and the status bar stays.
C13_ExponentValidation ==
    [][(/\ event.op = "generate_keys"
        /\ TrialPrime(event.a) /\ TrialPrime(event.b) /\ event.a # event.b)
       => LET ph == (event.a - 1) * (event.b - 1)
              e1 == HandedExponent(event.c, ph)
          IN  IF ph > 2
              THEN /\ GcdDef(e1, ph) = 1
                   /\ e' = Some(e1)
                   /\ phi' = Some(ph)
                   /\ keys_ready'
                   /\ status' = Status("keys_ready", event.a * event.b, e1, Val(d'))
              ELSE /\ ph = 2 /\ e1 = 2 /\ GcdDef(e1, ph) = 2
                   /\ UNCHANGED <<session, status>>]_vars

\* C13 witness: a key has just been stored whose exponent is the typed
\* e_candidate, accepted as valid although find_valid_e would suggest
\* another one for this phi.
C13_Witness ==
    /\ event = NoEvent /\ keys_ready
    /\ status.kind = "keys_ready"
    /\ Val(e) <= MaxE
    /\ ValidExponent(Val(e), Val(phi))
    /\ Val(e) # find_valid_e(Val(phi))

(***************************************************************************)
(* The session started from the values the window opens with: p = 61,      *)
(* q = 53, e = 17 in the key entries and 42 in the message entry.  The     *)
(* user may swap the two primes, retype e, and retype a message near the   *)
(* default; the handlers are those of Spec.                                *)
(***************************************************************************)
DefaultPrimes == {DefaultP, DefaultQ}
DefaultEInputs == {DefaultE} \cup EInputs
DefaultMsgInputs == (DefaultMsg - MaxOff)..(DefaultMsg + MaxOff)

ClickGenerateKeysDefault ==
    /\ event = NoEvent
    /\ \E p \in DefaultPrimes, q \in DefaultPrimes, ec \in DefaultEInputs :
          event' = Event("generate_keys", p, q, ec)
    /\ UNCHANGED <<session, status, callvars, entry_cipher, last_enc>>

ClickEncryptDefault ==
    /\ event = NoEvent
    /\ \E m \in DefaultMsgInputs : event' = Event("encrypt", m, 0, 0)
    /\ UNCHANGED <<session, status, callvars, entry_cipher, last_enc>>

NextDefault ==
    \/ ClickGenerateKeysDefault \/ ClickEncryptDefault \/ ClickDecrypt
    \/ GenerateKeys \/ Encrypt \/ Decrypt

SpecDefault == Init /\ [][NextDefault]_vars

\* C12: end-to-end scenario.  Key generation with p = 61, q = 53, e = 17
\* accepts e without substitution and stores n = 3233, phi = 3120, d = 2753;
\* under that key encrypt(42) yields the ciphertext 2557 and decrypt(2557)
\* yields 42.
C12_Scenario ==
    [][/\ event = Event("generate_keys", 61, 53, 17)
          => /\ n' = Some(3233) /\ phi' = Some(3120)
             /\ e' = Some(17) /\ d' = Some(2753)
             /\ keys_ready'
             /\ status' = Status("keys_ready", 3233, 17, 2753)
       /\ (event = Event("encrypt", 42, 0, 0) /\ keys_ready
           /\ n = Some(3233) /\ e = Some(17))
          => /\ last_cipher' = Some(2557)
             /\ status' = Status("encrypted", 42, 2557, 0)
       /\ (event = Event("decrypt", 2557, 0, 0) /\ keys_ready
           /\ n = Some(3233) /\ d = Some(2753))
          => status' = Status("decrypted", 2557, 42, 0)]_vars

\* C12 witness: with the key of p = 61, q = 53, e = 17 stored, 42 was
\* encrypted to 2557 and 2557 has just been decrypted back to 42.
C12_Witness ==
    /\ event = NoEvent /\ keys_ready
    /\ n = Some(3233) /\ phi = Some(3120) /\ e = Some(17) /\ d = Some(2753)
    /\ last_cipher = Some(2557)
    /\ status = Status("decrypted", 2557, 42, 0)

(***************************************************************************)
(* extended_gcd run one loop iteration at a time.  frame holds its locals  *)
(* old_r, r, old_s, s, old_t, t and steps.  The interpreter always runs    *)
(* the next statement, hence the weak fairness of NextEgcd.                *)
(***************************************************************************)
InitEgcd ==
    /\ InitApp
    /\ fn = "extended_gcd"
    /\ \E a \in 0..MaxGcdArg, b \in 0..MaxGcdArg : args = <<a, b, 0>>
    /\ ret = None
    /\ pc = "call"
    /\ frame = None

EgcdEnter ==
    /\ pc = "call"
    /\ frame' = extended_gcd_init(args[1], args[2])
    /\ pc' = "loop"
    /\ UNCHANGED <<session, status, event, entry_cipher, last_enc, fn, args, ret>>

EgcdIterate ==
    /\ pc = "loop"
    /\ frame.r # 0
    /\ frame' = extended_gcd_iter(frame)
    /\ UNCHANGED <<session, status, event, entry_cipher, last_enc, fn, args, ret, pc>>

EgcdReturn ==
    /\ pc = "loop"
    /\ frame.r = 0
    /\ ret' = <<frame.old_r, frame.old_s, frame.old_t, frame.steps>>
    /\ pc' = "return"
    /\ UNCHANGED <<session, status, event, entry_cipher, last_enc, fn, args, frame>>

NextEgcd == EgcdEnter \/ EgcdIterate \/ EgcdReturn

SpecEgcd == InitEgcd /\ [][NextEgcd]_vars /\ WF_vars(NextEgcd)

\* C14: extended_gcd terminates.  For all a >= 0 and b >= 0 the call
\* returns; every loop iteration replaces r by a value strictly smaller
\* than before and never below zero; the trace has one entry for the
\* initial state and one more per iteration, and is returned as it stands
\* when the loop ends at r = 0.
C14_Termination ==
    /\ [][/\ pc = "call" => Len(frame'.steps) = 1
          /\ (pc = "loop" /\ pc' = "loop")
             => /\ 0 <= frame'.r /\ frame'.r < frame.r
                /\ Len(frame'.steps) = Len(frame.steps) + 1
          /\ pc' = "return"
             => /\ frame.r = 0
                /\ ret'[4] = frame.steps]_vars
    /\ <>(pc = "return")

\* C14 witness: a call with b > a > 0 has returned after at least four
\* iterations (the first one only swaps the remainders), with a trace of
\* one entry more than that.
C14_Witness ==
    /\ pc = "return" /\ fn = "extended_gcd"
    /\ 0 < args[1] /\ args[1] < args[2]
    /\ frame.r = 0
    /\ Len(ret[4]) >= 5
    /\ ret[1] = GcdDef(args[1], args[2])

(***************************************************************************)
(* The session with the ciphertext entry and "Use Last Ciphertext".  The   *)
(* user generates keys from primes, encrypts small messages, types a       *)
(* ciphertext or has the last one filled in, and decrypts what the entry   *)
(* holds.  last_enc records the most recent successful encryption.         *)
(***************************************************************************)
CipherPrimes == {p \in PInputs : is_prime(p)}
CipherMsgInputs == 0..MaxMsg

ClickGenerateKeysCipher ==
    /\ event = NoEvent
    /\ \E p \in CipherPrimes, q \in CipherPrimes, ec \in EInputs :
          event' = Event("generate_keys", p, q, ec)
    /\ UNCHANGED <<session, status, callvars, entry_cipher, last_enc>>

ClickEncryptCipher ==
    /\ event = NoEvent
    /\ \E m \in CipherMsgInputs : event' = Event("encrypt", m, 0, 0)
    /\ UNCHANGED <<session, status, callvars, entry_cipher, last_enc>>

\* the user types an integer into the ciphertext entry
TypeCipher ==
    /\ event = NoEvent
    /\ \E c \in MinInput..MaxC : entry_cipher' = Some(c)
    /\ UNCHANGED <<session, status, event, callvars, last_enc>>

\* RSAApp._use_last_cipher
UseLastCipher ==
    /\ event = NoEvent
    /\ IF last_cipher = None
       THEN UNCHANGED entry_cipher
       ELSE entry_cipher' = last_cipher
    /\ UNCHANGED <<session, status, event, callvars, last_enc>>

\* the Decrypt button: int(self.entry_cipher.get()) raises ValueError for
\* the initial "?", and the handler returns with nothing changed
ClickDecryptEntry ==
    /\ event = NoEvent
    /\ IF entry_cipher = None
       THEN UNCHANGED event
       ELSE event' = Event("decrypt", Val(entry_cipher), 0, 0)
    /\ UNCHANGED <<session, status, callvars, entry_cipher, last_enc>>

\* RSAApp._encrypt, with the history of the last successful encryption
EncryptRecorded ==
    /\ event.op = "encrypt"
    /\ encrypt(event.a)
    /\ last_enc' = IF keys_ready /\ 0 < event.a /\ event.a < Val(n)
                   THEN <<event.a, Val(n), Val(e)>>
                   ELSE last_enc
    /\ event' = NoEvent
    /\ UNCHANGED <<callvars, entry_cipher>>

NextCipher ==
    \/ ClickGenerateKeysCipher \/ ClickEncryptCipher
    \/ TypeCipher \/ UseLastCipher \/ ClickDecryptEntry
    \/ GenerateKeys \/ EncryptRecorded \/ Decrypt

SpecCipher == Init /\ [][NextCipher]_vars

\* a step of a successful encryption: the handler runs with a key stored
\* and 0 < m < n, and stores m^e mod n
SuccessfulEncryption ==
    /\ event.op = "encrypt" /\ keys_ready
    /\ 0 < event.a /\ event.a < Val(n)
    /\ last_cipher' = Some(PowMod(event.a, Val(e), Val(n)))

\* C15 (as stated): in any sequence of key-generation, encrypt,
\* use-last-ciphertext and decrypt actions, last_cipher is None until the
\* first successful encryption, is changed only by a successful encryption,
\* and whenever it is set, decrypting it with the currently stored key
\* returns the plaintext of the most recent successful encryption.
C15_AsStated ==
    [][/\ last_enc = None => last_cipher = None
       /\ last_cipher' # last_cipher => SuccessfulEncryption
       /\ (event.op = "decrypt" /\ last_cipher # None
           /\ event.a = Val(last_cipher))
          => status' = Status("decrypted", event.a, last_enc[1], 0)]_vars

\* C15 (what the code does): last_cipher is None until the first successful
\* encryption and is changed only by a successful encryption; key
\* generation keeps it, also when it replaces the key.  Use-last-ciphertext
\* copies it into the ciphertext entry.  Whenever it is set, decrypting it
\* returns last_cipher^d mod n for the stored key, which is the plaintext of
\* the most recent successful encryption when the stored n and e are those
\* that encryption was made under.
C15_LastCipher ==
    [][/\ last_enc = None => last_cipher = None
       /\ last_cipher' # last_cipher => SuccessfulEncryption
       /\ event.op = "generate_keys" => last_cipher' = last_cipher
       /\ (entry_cipher' # entry_cipher /\ event' = event /\ last_cipher # None)
          => (entry_cipher' = last_cipher
              \/ Val(entry_cipher') \in MinInput..MaxC)
       /\ (event.op = "decrypt" /\ last_cipher # None
           /\ event.a = Val(last_cipher))
          => /\ status' = Status("decrypted", event.a,
                                 PowMod(event.a, Val(d), Val(n)), 0)
             /\ (Val(n) = last_enc[2] /\ Val(e) = last_enc[3])
                => status'.b = last_enc[1]]_vars

\* C15 witness: after a successful encryption the key was replaced by
\* another one, the last ciphertext was filled into the entry and has just
\* been decrypted with the stored key to a value that is not the plaintext
\* of the most recent successful encryption.
C15_Witness ==
    /\ event = NoEvent /\ keys_ready
    /\ last_cipher # None /\ entry_cipher = last_cipher
    /\ Val(n) # last_enc[2]
    /\ status.kind = "decrypted"
    /\ status.a = Val(last_cipher)
    /\ status.b = PowMod(Val(last_cipher), Val(d), Val(n))
    /\ status.b # last_enc[1]

=============================================================================
